---- MODULE Spec2Model ----
(***************************************************************************)
(* Authentication and session core of the Task Management backend          *)
(* (backend/app/routers/auth.py): register, login, refresh, logout and the *)
(* Google / GitHub callbacks, over the three stores User, RefreshToken and *)
(* Session, and the task handlers (backend/app/routers/tasks.py) over the  *)
(* Task store.  The clock counts minutes.                                  *)
(***************************************************************************)
EXTENDS Integers, Sequences, FiniteSets, TLC

VARIABLES users, tokens, sessions, now, access_issued, consumed, logged_out,
          pc, txn, lock, refreshed, derived, logout_revoked,
          tasks, task_seq

vars == <<users, tokens, sessions, now, access_issued, consumed, logged_out,
          pc, txn, lock, refreshed, derived, logout_revoked, tasks, task_seq>>

\* the requests in flight and what is recorded of concurrent outcomes
conc == <<pc, txn, lock, refreshed, derived, logout_revoked>>

\* the Task store (backend/app/routers/tasks.py): the records and the last id
\* the primary key sequence has given out
task_store == <<tasks, task_seq>>

----------------------------------------------------------------------------
(* Bounds of the model *)

MaxTokens == 2

MaxSessions == 1

\* ledger records while requests interleave
MaxConcTokens == 3

(* Program constants (backend/app/core/config.py) *)

ACCESS_TOKEN_EXPIRE_MINUTES == 30

REFRESH_TOKEN_EXPIRE_DAYS == 7

RefreshTtl == REFRESH_TOKEN_EXPIRE_DAYS * 24 * 60

(* Inputs *)

None == "None"

NoHash == << >>

NoEmail == << >>

\* a provider profile without the key "email"
MissingKey == << "KeyError" >>

NoTime == 0 - 1

Emails == { <<"a", "x.com">>, <<"b", "x.com">> }

Usernames == { "a", "b" }

Passwords == { "p1", "wrong" }

RegPasswords == { "p1" }

ProviderIds == { "42" }

GithubIds == { 42 }

Procs == { 1, 2 }

\* the instants the clock visits: issue time, a minute later, the expiry of a
\* refresh token issued at 0, a minute after it
Instants == { 0, 1, RefreshTtl, RefreshTtl + 1 }

----------------------------------------------------------------------------
(* Credential hasher and token codec *)

\* get_password_hash: a one-way digest of the password
get_password_hash(password) == <<"digest", password>>

\* verify_password: true iff the password hashes to the stored digest
verify_password(password, hashed) == hashed = <<"digest", password>>

\* create_access_token: signed claims {user_id, email, exp = now + 30 min, type}
create_access_token(uid, email, t) ==
    [user_id |-> uid, email |-> email, exp |-> t + ACCESS_TOKEN_EXPIRE_MINUTES,
     type |-> "access", sig |-> "ok"]

\* create_refresh_token: signed claims {user_id, exp = now + 7 days, type}
create_refresh_token(uid, t) ==
    [user_id |-> uid, email |-> NoEmail, exp |-> t + RefreshTtl,
     type |-> "refresh", sig |-> "ok"]

\* verify_token: signature, then expiry, then the type claim
verify_token(tok, expected, t) ==
    IF tok.sig # "ok" THEN "TokenMalformed"
    ELSE IF t > tok.exp THEN "TokenExpired"
    ELSE IF tok.type # expected THEN "TokenTypeMismatch"
    ELSE "ok"

\* a token string whose signature does not verify
ForgedToken ==
    [user_id |-> 1, email |-> NoEmail, exp |-> 3 * RefreshTtl,
     type |-> "refresh", sig |-> "bad"]

\* the absence of a token in a response
NoToken ==
    [user_id |-> 0, email |-> NoEmail, exp |-> 0, type |-> "none", sig |-> "none"]

----------------------------------------------------------------------------
(* Record stores *)

UserIds == 1..Len(users)

\* db.query(User).filter(User.email == email).first()
UserByEmail(email) ==
    LET hit == { i \in UserIds : users[i].email = email }
    IN  IF hit = {} THEN 0 ELSE CHOOSE i \in hit : \A j \in hit : i <= j

\* variant: only the email is indexed unique
UserInsertOk_email(us, u) ==
    /\ u.email # NoEmail
    /\ \A i \in 1..Len(us) : us[i].email # u.email

\* the users table: email is required; unique indexes on email and username
UserInsertOk(us, u) ==
    /\ u.email # NoEmail
    /\ \A i \in 1..Len(us) : us[i].email # u.email /\ us[i].username # u.username

\* the unique index of the refresh_tokens table on token
TokenInsertOk(ledger, tok) ==
    \A i \in 1..Len(ledger) : ledger[i].token # tok

\* RefreshToken(token=..., user_id=..., expires_at=now + 7 days)
RefreshTokenRow(tok, uid, t) ==
    [token |-> tok, user_id |-> uid, expires_at |-> t + RefreshTtl,
     is_revoked |-> FALSE]

\* what a handler returns and what it leaves committed in the stores
Out(op, status, detail, uid, acc, ref, us, ledger, sess) ==
    [op |-> op, status |-> status, detail |-> detail, user_id |-> uid,
     access |-> acc, refresh |-> ref,
     users |-> us, tokens |-> ledger, sessions |-> sess]

\* a request's transaction: the token presented, the user, the ledger rows
\* read or locked, the user record to insert
NoUser ==
    [email |-> NoEmail, username |-> None, hashed_password |-> NoHash,
     provider |-> None, provider_id |-> None,
     is_active |-> FALSE, is_verified |-> FALSE, last_login |-> NoTime]

NoTxn == [op |-> None, tok |-> NoToken, uid |-> 0, rows |-> {}, user |-> NoUser]

----------------------------------------------------------------------------
(* Initial state: empty stores, no request in flight *)

Init ==
    /\ users = << >>
    /\ tokens = << >>
    /\ sessions = << >>
    /\ now = 0
    /\ access_issued = {}
    /\ consumed = {}
    /\ logged_out = {}
    /\ pc = [p \in Procs |-> "idle"]
    /\ txn = [p \in Procs |-> NoTxn]
    /\ lock = [i \in 1..MaxConcTokens |-> 0]
    /\ refreshed = {}
    /\ derived = {}
    /\ logout_revoked = {}
    /\ tasks = << >>
    /\ task_seq = 0

----------------------------------------------------------------------------
(* Token issuance shared by the handlers: create the pair for user `uid`,  *)
(* add the refresh token to the pending ledger `pending`, commit.  A       *)
(* duplicate token string fails the commit: the pending ledger is dropped  *)
(* and the committed one, `tokens`, stays.                                 *)

\* variant: a duplicate token string replaces the stored record
IssueTokens_upsert(op, us, pending, uid, t) ==
    LET acc == create_access_token(uid, us[uid].email, t)
        ref == create_refresh_token(uid, t)
    IN  IF TokenInsertOk(pending, ref)
        THEN Out(op, 200, "ok", uid, acc, ref, us,
                 Append(pending, RefreshTokenRow(ref, uid, t)), sessions)
        ELSE Out(op, 200, "ok", uid, acc, ref, us,
                 [i \in 1..Len(pending) |->
                     IF pending[i].token = ref THEN RefreshTokenRow(ref, uid, t)
                     ELSE pending[i]], sessions)

IssueTokens(op, us, pending, uid, t) ==
    LET acc == create_access_token(uid, us[uid].email, t)
        ref == create_refresh_token(uid, t)
    IN  IF TokenInsertOk(pending, ref)
        THEN Out(op, 200, "ok", uid, acc, ref, us,
                 Append(pending, RefreshTokenRow(ref, uid, t)), sessions)
        ELSE Out(op, 500, "IntegrityError", uid, NoToken, NoToken, us, tokens,
                 sessions)

Rejected(op, status, detail) ==
    Out(op, status, detail, 0, NoToken, NoToken, users, tokens, sessions)

\* a handler's committed stores become the state; issued access tokens are
\* remembered as the bearer tokens clients hold
Commit(out) ==
    /\ Len(out.tokens) <= MaxTokens
    /\ users' = out.users
    /\ tokens' = out.tokens
    /\ sessions' = out.sessions
    /\ access_issued' = IF out.status = 200 /\ out.access # NoToken
                        THEN access_issued \cup {out.access}
                        ELSE access_issued

----------------------------------------------------------------------------
(* register *)

\* variant: the check requires email AND username to match
RegisterExisting_and(us, email, username) ==
    \E i \in 1..Len(us) : us[i].email = email /\ us[i].username = username

\* the existence check: email OR username already taken
RegisterExisting(us, email, username) ==
    \E i \in 1..Len(us) : us[i].email = email \/ us[i].username = username

\* User(email, username, hashed_password, provider="local")
LocalUser(email, username, password) ==
    [email |-> email, username |-> username,
     hashed_password |-> get_password_hash(password),
     provider |-> "local", provider_id |-> None,
     is_active |-> TRUE, is_verified |-> FALSE, last_login |-> NoTime]

register_out(email, username, password) ==
    IF RegisterExisting(users, email, username)
    THEN Rejected("register", 400, "Email or username already registered")
    ELSE IF ~ UserInsertOk(users, LocalUser(email, username, password))
    THEN Rejected("register", 500, "IntegrityError")
    ELSE IssueTokens("register",
                     Append(users, LocalUser(email, username, password)),
                     tokens, Len(users) + 1, now)

register(email, username, password) ==
    /\ Commit(register_out(email, username, password))
    /\ UNCHANGED <<now, consumed, logged_out>>
    /\ UNCHANGED conc
    /\ UNCHANGED task_store

----------------------------------------------------------------------------
(* login *)

\* variant: the password is verified only when a hash is stored
LoginRejected_hashless(us, uid, password) ==
    \/ uid = 0
    \/ /\ us[uid].hashed_password # NoHash
       /\ ~ verify_password(password, us[uid].hashed_password)

\* not user or not user.hashed_password or not verify_password(...)
LoginRejected(us, uid, password) ==
    \/ uid = 0
    \/ us[uid].hashed_password = NoHash
    \/ ~ verify_password(password, us[uid].hashed_password)

\* variant: the is_active check is missing
login_out_active(email, password) ==
    LET uid == UserByEmail(email)
    IN  IF LoginRejected(users, uid, password)
        THEN Rejected("login", 401, "Incorrect email or password")
        ELSE IssueTokens("login", [users EXCEPT ![uid].last_login = now],
                         tokens, uid, now)

login_out(email, password) ==
    LET uid == UserByEmail(email)
    IN  IF LoginRejected(users, uid, password)
        THEN Rejected("login", 401, "Incorrect email or password")
        ELSE IF ~ users[uid].is_active
        THEN Rejected("login", 401, "Account is deactivated")
        ELSE IssueTokens("login", [users EXCEPT ![uid].last_login = now],
                         tokens, uid, now)

login(email, password) ==
    /\ Commit(login_out(email, password))
    /\ UNCHANGED <<now, consumed, logged_out>>
    /\ UNCHANGED conc
    /\ UNCHANGED task_store

----------------------------------------------------------------------------
(* refresh *)

\* variant: the query without the is_revoked filter
RefreshLookup_revoked(ledger, tok, uid, t) ==
    LET hit == { i \in 1..Len(ledger) :
                    /\ ledger[i].token = tok
                    /\ ledger[i].user_id = uid
                    /\ ledger[i].expires_at > t }
    IN  IF hit = {} THEN 0 ELSE CHOOSE i \in hit : \A j \in hit : i <= j

\* variant: the query without the expires_at filter
RefreshLookup_noexpiry(ledger, tok, uid, t) ==
    LET hit == { i \in 1..Len(ledger) :
                    /\ ledger[i].token = tok
                    /\ ledger[i].user_id = uid
                    /\ ledger[i].is_revoked = FALSE }
    IN  IF hit = {} THEN 0 ELSE CHOOSE i \in hit : \A j \in hit : i <= j

\* the ledger query: token, owner, not revoked, not expired; first match
RefreshLookup(ledger, tok, uid, t) ==
    LET hit == { i \in 1..Len(ledger) :
                    /\ ledger[i].token = tok
                    /\ ledger[i].user_id = uid
                    /\ ledger[i].is_revoked = FALSE
                    /\ ledger[i].expires_at > t }
    IN  IF hit = {} THEN 0 ELSE CHOOSE i \in hit : \A j \in hit : i <= j

\* refresh_token_obj.is_revoked = True
RevokeRow(ledger, i) == [ledger EXCEPT ![i].is_revoked = TRUE]

\* variant: a token that fails the ledger query has its records revoked
refresh_out_dirty(tok) ==
    LET uid == tok.user_id
        row == RefreshLookup(tokens, tok, uid, now)
    IN  IF verify_token(tok, "refresh", now) # "ok"
        THEN Rejected("refresh", 401, "Invalid token")
        ELSE IF row = 0
        THEN Out("refresh", 401, "Invalid refresh token", 0, NoToken, NoToken,
                 users,
                 [i \in 1..Len(tokens) |->
                     IF tokens[i].token = tok
                     THEN [tokens[i] EXCEPT !.is_revoked = TRUE]
                     ELSE tokens[i]],
                 sessions)
        ELSE IssueTokens("refresh", users, RevokeRow(tokens, row), uid, now)

refresh_out(tok) ==
    LET uid == tok.user_id
        row == RefreshLookup(tokens, tok, uid, now)
    IN  IF verify_token(tok, "refresh", now) # "ok"
        THEN Rejected("refresh", 401, "Invalid token")
        ELSE IF row = 0
        THEN Rejected("refresh", 401, "Invalid refresh token")
        ELSE IssueTokens("refresh", users, RevokeRow(tokens, row), uid, now)

refresh_token(tok) ==
    /\ Commit(refresh_out(tok))
    /\ consumed' = IF refresh_out(tok).status = 200 THEN consumed \cup {tok}
                   ELSE consumed
    /\ UNCHANGED <<now, logged_out>>
    /\ UNCHANGED conc
    /\ UNCHANGED task_store

----------------------------------------------------------------------------
(* logout *)

\* variant: the bearer token is verified for signature and expiry only
get_current_user_anytype(us, tok, t) ==
    IF verify_token(tok, tok.type, t) # "ok" THEN 0
    ELSE IF tok.user_id \notin 1..Len(us) THEN 0
    ELSE IF ~ us[tok.user_id].is_active THEN 0
    ELSE tok.user_id

\* get_current_user: the bearer's user id, or 0 when the request is refused
get_current_user(us, tok, t) ==
    IF verify_token(tok, "access", t) # "ok" THEN 0
    ELSE IF tok.user_id \notin 1..Len(us) THEN 0
    ELSE IF ~ us[tok.user_id].is_active THEN 0
    ELSE tok.user_id

\* variant: only the first unrevoked record of the user is updated
RevokeAllForUser_first(ledger, uid) ==
    LET hit == { i \in 1..Len(ledger) :
                    ledger[i].user_id = uid /\ ledger[i].is_revoked = FALSE }
    IN  [i \in 1..Len(ledger) |->
            IF i \in hit /\ \A j \in hit : i <= j
            THEN [ledger[i] EXCEPT !.is_revoked = TRUE]
            ELSE ledger[i]]

\* variant: the update without the user_id filter
RevokeAllForUser_all(ledger, uid) ==
    [i \in 1..Len(ledger) |->
        IF ledger[i].is_revoked = FALSE
        THEN [ledger[i] EXCEPT !.is_revoked = TRUE]
        ELSE ledger[i]]

\* update({"is_revoked": True}) on the user's unrevoked refresh tokens
RevokeAllForUser(ledger, uid) ==
    [i \in 1..Len(ledger) |->
        IF ledger[i].user_id = uid /\ ledger[i].is_revoked = FALSE
        THEN [ledger[i] EXCEPT !.is_revoked = TRUE]
        ELSE ledger[i]]

\* variant: the update flips the active flag of every session of the user
CloseAllForUser_toggle(sess, uid) ==
    [i \in 1..Len(sess) |->
        IF sess[i].user_id = uid
        THEN [sess[i] EXCEPT !.is_active = ~ sess[i].is_active]
        ELSE sess[i]]

\* update({"is_active": False}) on the user's active sessions
CloseAllForUser(sess, uid) ==
    [i \in 1..Len(sess) |->
        IF sess[i].user_id = uid /\ sess[i].is_active = TRUE
        THEN [sess[i] EXCEPT !.is_active = FALSE]
        ELSE sess[i]]

TokensOf(ledger, uid) ==
    { ledger[i].token : i \in { j \in 1..Len(ledger) : ledger[j].user_id = uid } }

logout_out(tok) ==
    LET uid == get_current_user(users, tok, now)
    IN  IF uid = 0
        THEN Rejected("logout", 401, "Unauthenticated")
        ELSE Out("logout", 200, "Successfully logged out", uid, NoToken, NoToken,
                 users, RevokeAllForUser(tokens, uid),
                 CloseAllForUser(sessions, uid))

logout(tok) ==
    /\ Commit(logout_out(tok))
    /\ logged_out' = IF logout_out(tok).status = 200
                     THEN logged_out \cup TokensOf(tokens, logout_out(tok).user_id)
                     ELSE logged_out
    /\ UNCHANGED <<now, consumed>>
    /\ UNCHANGED conc
    /\ UNCHANGED task_store

----------------------------------------------------------------------------
(* Federated callbacks *)

\* User(email, username, provider, provider_id, is_verified=True)
FederatedUser(email, username, provider, provider_id) ==
    [email |-> email, username |-> username, hashed_password |-> NoHash,
     provider |-> provider, provider_id |-> provider_id,
     is_active |-> TRUE, is_verified |-> TRUE, last_login |-> NoTime]

\* the part shared by both callbacks: resolve by email, create when absent,
\* then issue the pair for the resolved user
FederatedLogin(op, new) ==
    LET uid == UserByEmail(new.email)
    IN  IF uid # 0
        THEN IssueTokens(op, users, tokens, uid, now)
        ELSE IF UserInsertOk(users, new)
        THEN IssueTokens(op, Append(users, new), tokens, Len(users) + 1, now)
        ELSE Rejected(op, 500, "IntegrityError")

\* username = user_info["email"].split("@")[0], provider_id = user_info["id"]
GoogleUser(info) ==
    FederatedUser(info.email, info.email[1], "google", info.id)

\* user_info["email"] raises KeyError without the key; with a null email and
\* no user found, user_info["email"].split raises AttributeError
google_out(code, info) ==
    IF code = None
    THEN Rejected("google_callback", 400, "Authorization code not provided")
    ELSE IF info.email = MissingKey
    THEN Rejected("google_callback", 500, "KeyError")
    ELSE IF info.email = NoEmail /\ UserByEmail(NoEmail) = 0
    THEN Rejected("google_callback", 500, "AttributeError")
    ELSE IF info.email = NoEmail
    THEN IssueTokens("google_callback", users, tokens, UserByEmail(NoEmail), now)
    ELSE FederatedLogin("google_callback", GoogleUser(info))

google_callback(code, info) ==
    /\ Commit(google_out(code, info))
    /\ UNCHANGED <<now, consumed, logged_out>>
    /\ UNCHANGED conc
    /\ UNCHANGED task_store

\* variant: a profile without an email gets a default address
GithubUser_default(info) ==
    FederatedUser(IF info.email \in {NoEmail, MissingKey}
                  THEN << info.login, "users.noreply.github.com" >>
                  ELSE info.email,
                  info.login, "github", ToString(info.id))

\* username = user_info["login"], provider_id = str(user_info["id"])
GithubUser(info) ==
    FederatedUser(info.email, info.login, "github", ToString(info.id))

\* user_info["email"] raises KeyError without the key; a null email is looked
\* up and, when no user has it, inserted as it is
github_out(code, info) ==
    IF code = None
    THEN Rejected("github_callback", 400, "Authorization code not provided")
    ELSE IF GithubUser(info).email = MissingKey
    THEN Rejected("github_callback", 500, "KeyError")
    ELSE FederatedLogin("github_callback", GithubUser(info))

github_callback(code, info) ==
    /\ Commit(github_out(code, info))
    /\ UNCHANGED <<now, consumed, logged_out>>
    /\ UNCHANGED conc
    /\ UNCHANGED task_store

----------------------------------------------------------------------------
(* Environment: the clock, account deactivation, the session registry *)

Tick(t) ==
    /\ t > now
    /\ now' = t
    /\ UNCHANGED <<users, tokens, sessions, access_issued, consumed, logged_out>>
    /\ UNCHANGED conc
    /\ UNCHANGED task_store

\* the active flag of a user record is cleared
DeactivateUser(uid) ==
    /\ users[uid].is_active
    /\ users' = [users EXCEPT ![uid].is_active = FALSE]
    /\ UNCHANGED <<tokens, sessions, now, access_issued, consumed, logged_out>>
    /\ UNCHANGED conc
    /\ UNCHANGED task_store

\* Session Registry open(user_id): a new active session record
OpenSession(uid) ==
    /\ Len(sessions) < MaxSessions
    /\ sessions' = Append(sessions, [user_id |-> uid, is_active |-> TRUE])
    /\ UNCHANGED <<users, tokens, now, access_issued, consumed, logged_out>>
    /\ UNCHANGED conc
    /\ UNCHANGED task_store

----------------------------------------------------------------------------
(* Requests a client can send *)

LedgerTokens == { tokens[i].token : i \in 1..Len(tokens) }

Presentable == access_issued \cup LedgerTokens \cup {ForgedToken}

GoogleProfiles == [email : Emails, id : ProviderIds]

GithubProfiles == [email : Emails, login : Usernames, id : GithubIds]

\* profiles whose email is null or absent
GoogleProfilesNoEmail == [email : {NoEmail, MissingKey}, id : ProviderIds]

GithubProfilesNoEmail ==
    [email : {NoEmail, MissingKey}, login : Usernames, id : GithubIds]

\* without a code no profile is fetched
NoGoogleProfile == [email |-> NoEmail, id |-> None]

NoGithubProfile == [email |-> NoEmail, login |-> None, id |-> 0]

Next ==
    \/ \E e \in Emails, u \in Usernames, p \in RegPasswords : register(e, u, p)
    \/ \E e \in Emails, p \in Passwords : login(e, p)
    \/ \E tok \in Presentable : refresh_token(tok)
    \/ \E tok \in Presentable : logout(tok)
    \/ \E info \in GoogleProfiles : google_callback("code", info)
    \/ google_callback(None, NoGoogleProfile)
    \/ \E info \in GithubProfiles : github_callback("code", info)
    \/ github_callback(None, NoGithubProfile)
    \/ \E info \in GoogleProfilesNoEmail : google_callback("code", info)
    \/ \E info \in GithubProfilesNoEmail : github_callback("code", info)
    \/ \E t \in Instants : Tick(t)

\* the handlers of the auth router over the clock
Spec == Init /\ [][Next]_vars

NextSessions == Next \/ \E uid \in UserIds : OpenSession(uid)

\* the same, with a session registry that opens sessions
SessionSpec == Init /\ [][NextSessions]_vars

NextInactive == Next \/ \E uid \in UserIds : DeactivateUser(uid)

\* the same, with accounts that can be deactivated
InactiveSpec == Init /\ [][NextInactive]_vars

----------------------------------------------------------------------------
(* The same handlers as interleaved requests: each of the processes runs   *)
(* one request at a time, a step per database statement.  A statement      *)
(* reads the committed stores; an UPDATE locks the rows it changes until   *)
(* the commit and waits for a row another transaction has locked.          *)

\* requests in flight that will store a refresh token
Issuing == { p \in Procs : pc[p] \in {"refresh_read", "refresh_written",
                                      "register_checked", "callback_new"} }

Room == Len(tokens) + Cardinality(Issuing) < MaxConcTokens

\* refresh, lines 146-161: verify the token, query the ledger
RefreshRead(p, tok) ==
    /\ pc[p] = "idle"
    /\ Room
    /\ verify_token(tok, "refresh", now) = "ok"
    /\ RefreshLookup(tokens, tok, tok.user_id, now) # 0
    /\ pc' = [pc EXCEPT ![p] = "refresh_read"]
    /\ txn' = [txn EXCEPT ![p] =
                 [NoTxn EXCEPT !.op = "refresh", !.tok = tok, !.uid = tok.user_id,
                    !.rows = {RefreshLookup(tokens, tok, tok.user_id, now)}]]
    /\ UNCHANGED <<users, tokens, sessions, now, access_issued, consumed,
                   logged_out, lock, refreshed, derived, logout_revoked>>
    /\ UNCHANGED task_store

\* refresh, lines 163-167: the revoke is flushed as an UPDATE by primary key
RefreshWrite(p) ==
    /\ pc[p] = "refresh_read"
    /\ \A i \in txn[p].rows : lock[i] = 0
    /\ lock' = [i \in DOMAIN lock |-> IF i \in txn[p].rows THEN p ELSE lock[i]]
    /\ pc' = [pc EXCEPT ![p] = "refresh_written"]
    /\ UNCHANGED <<users, tokens, sessions, now, access_issued, consumed,
                   logged_out, txn, refreshed, derived, logout_revoked>>
    /\ UNCHANGED task_store

\* refresh, lines 168-184: create the pair, insert the new record, commit
RefreshCommit(p) ==
    LET row == CHOOSE i \in txn[p].rows : TRUE
        out == IssueTokens("refresh", users, RevokeRow(tokens, row), txn[p].uid,
                           now)
    IN  /\ pc[p] = "refresh_written"
        /\ tokens' = out.tokens
        /\ access_issued' = IF out.status = 200
                            THEN access_issued \cup {out.access}
                            ELSE access_issued
        /\ refreshed' = IF out.status = 200
                        THEN refreshed \cup { <<p, txn[p].tok>> }
                        ELSE refreshed
        /\ derived' = IF out.status = 200
                      THEN derived \cup { <<out.refresh, txn[p].tok>> }
                      ELSE derived
        /\ lock' = [i \in DOMAIN lock |-> IF lock[i] = p THEN 0 ELSE lock[i]]
        /\ pc' = [pc EXCEPT ![p] = "idle"]
        /\ txn' = [txn EXCEPT ![p] = NoTxn]
        /\ UNCHANGED <<users, sessions, now, consumed, logged_out, logout_revoked>>
        /\ UNCHANGED task_store

\* logout, lines 188-196: authenticate, start the UPDATE of the user's
\* unrevoked records on the rows committed at that moment
LogoutScan(p, tok) ==
    LET uid == get_current_user(users, tok, now)
    IN  /\ pc[p] = "idle"
        /\ uid # 0
        /\ pc' = [pc EXCEPT ![p] = "logout_scanned"]
        /\ txn' = [txn EXCEPT ![p] =
                     [NoTxn EXCEPT !.op = "logout", !.tok = tok, !.uid = uid,
                        !.rows = { i \in 1..Len(tokens) :
                                     /\ tokens[i].user_id = uid
                                     /\ tokens[i].is_revoked = FALSE }]]
        /\ UNCHANGED <<users, tokens, sessions, now, access_issued, consumed,
                       logged_out, lock, refreshed, derived, logout_revoked>>
        /\ UNCHANGED task_store

\* the UPDATE waits for locked rows, then rechecks its filter on each row's
\* committed version and locks the rows it changes
LogoutLock(p) ==
    LET hit == { i \in txn[p].rows : tokens[i].is_revoked = FALSE }
    IN  /\ pc[p] = "logout_scanned"
        /\ \A i \in txn[p].rows : lock[i] = 0
        /\ lock' = [i \in DOMAIN lock |-> IF i \in hit THEN p ELSE lock[i]]
        /\ txn' = [txn EXCEPT ![p].rows = hit]
        /\ pc' = [pc EXCEPT ![p] = "logout_locked"]
        /\ UNCHANGED <<users, tokens, sessions, now, access_issued, consumed,
                       logged_out, refreshed, derived, logout_revoked>>
        /\ UNCHANGED task_store

\* logout, lines 198-205: close the sessions, commit
LogoutCommit(p) ==
    /\ pc[p] = "logout_locked"
    /\ tokens' = [i \in 1..Len(tokens) |->
                    IF i \in txn[p].rows THEN [tokens[i] EXCEPT !.is_revoked = TRUE]
                    ELSE tokens[i]]
    /\ sessions' = CloseAllForUser(sessions, txn[p].uid)
    /\ logout_revoked' = logout_revoked \cup { tokens[i].token : i \in txn[p].rows }
    /\ lock' = [i \in DOMAIN lock |-> IF lock[i] = p THEN 0 ELSE lock[i]]
    /\ pc' = [pc EXCEPT ![p] = "idle"]
    /\ txn' = [txn EXCEPT ![p] = NoTxn]
    /\ UNCHANGED <<users, now, access_issued, consumed, logged_out, refreshed,
                   derived>>
    /\ UNCHANGED task_store

\* register, lines 59-68: the existence check
RegisterCheck(p, email, username, password) ==
    /\ pc[p] = "idle"
    /\ Room
    /\ ~ RegisterExisting(users, email, username)
    /\ pc' = [pc EXCEPT ![p] = "register_checked"]
    /\ txn' = [txn EXCEPT ![p] =
                 [NoTxn EXCEPT !.op = "register",
                               !.user = LocalUser(email, username, password)]]
    /\ UNCHANGED <<users, tokens, sessions, now, access_issued, consumed,
                   logged_out, lock, refreshed, derived, logout_revoked>>
    /\ UNCHANGED task_store

\* a callback, lines 230-233 and 290-293: the lookup by email found no user
CallbackLookup(p, new) ==
    /\ pc[p] = "idle"
    /\ Room
    /\ UserByEmail(new.email) = 0
    /\ pc' = [pc EXCEPT ![p] = "callback_new"]
    /\ txn' = [txn EXCEPT ![p] = [NoTxn EXCEPT !.op = "callback", !.user = new]]
    /\ UNCHANGED <<users, tokens, sessions, now, access_issued, consumed,
                   logged_out, lock, refreshed, derived, logout_revoked>>
    /\ UNCHANGED task_store

\* register, lines 70-95, and a callback, lines 234-259 and 294-319: insert
\* the user, commit, issue the pair.  The insert fails on a taken email or
\* username and nothing is stored.
UserInsert(p) ==
    LET new == txn[p].user
        out == IF UserInsertOk(users, new)
               THEN IssueTokens(txn[p].op, Append(users, new), tokens,
                                Len(users) + 1, now)
               ELSE Rejected(txn[p].op, 500, "IntegrityError")
    IN  /\ pc[p] \in {"register_checked", "callback_new"}
        /\ users' = out.users
        /\ tokens' = out.tokens
        /\ access_issued' = IF out.status = 200
                            THEN access_issued \cup {out.access}
                            ELSE access_issued
        /\ pc' = [pc EXCEPT ![p] = "idle"]
        /\ txn' = [txn EXCEPT ![p] = NoTxn]
        /\ UNCHANGED <<sessions, now, consumed, logged_out, lock, refreshed,
                       derived, logout_revoked>>
        /\ UNCHANGED task_store

\* a callback, lines 230-233 and 248-259: the lookup by email found the user
CallbackExisting(p, op, email) ==
    LET uid == UserByEmail(email)
        out == IssueTokens(op, users, tokens, uid, now)
    IN  /\ pc[p] = "idle"
        /\ Room
        /\ uid # 0
        /\ tokens' = out.tokens
        /\ access_issued' = IF out.status = 200
                            THEN access_issued \cup {out.access}
                            ELSE access_issued
        /\ UNCHANGED <<users, sessions, now, consumed, logged_out>>
        /\ UNCHANGED conc
        /\ UNCHANGED task_store

NextConc ==
    \/ \E e \in Emails, u \in Usernames, pw \in RegPasswords :
          Room /\ register(e, u, pw)
    \/ \E p \in Procs, tok \in Presentable : RefreshRead(p, tok)
    \/ \E p \in Procs : RefreshWrite(p)
    \/ \E p \in Procs : RefreshCommit(p)
    \/ \E p \in Procs, tok \in Presentable : LogoutScan(p, tok)
    \/ \E p \in Procs : LogoutLock(p)
    \/ \E p \in Procs : LogoutCommit(p)
    \/ \E t \in Instants : Tick(t)

\* refresh and logout as interleaved requests, users coming from register
ConcSpec == Init /\ [][NextConc]_vars

NextRace ==
    \/ \E p \in Procs, e \in Emails, u \in Usernames, pw \in RegPasswords :
          RegisterCheck(p, e, u, pw)
    \/ \E p \in Procs, info \in GoogleProfiles : CallbackLookup(p, GoogleUser(info))
    \/ \E p \in Procs, info \in GithubProfiles : CallbackLookup(p, GithubUser(info))
    \/ \E p \in Procs, info \in GoogleProfiles :
          CallbackExisting(p, "google_callback", info.email)
    \/ \E p \in Procs, info \in GithubProfiles :
          CallbackExisting(p, "github_callback", info.email)
    \/ \E p \in Procs : UserInsert(p)
    \/ \E t \in Instants : Tick(t)

\* register and the callbacks as interleaved requests
RaceSpec == Init /\ [][NextRace]_vars

----------------------------------------------------------------------------
(* Task store: backend/app/routers/tasks.py.  Every handler depends on     *)
(* get_current_user and works on the records whose owner_id is the         *)
(* caller's id.                                                            *)

\* ids the primary key sequence of the tasks table gives out
MaxTasks == 2

\* a field the request body does not set (dict(exclude_unset=True))
Unset == "unset"

TaskStatus == { "todo", "in_progress", "completed", "cancelled" }

TaskPriority == { "low", "medium", "high", "urgent" }

Titles == { "t1", "t2" }

\* TaskCreate: title required, status and priority default to todo / medium
TaskCreates == [title : {"t1"}, status : {"todo", "completed"}, priority : {"medium"}]

\* TaskUpdate: every field optional; a field can be left out, set, or null
TaskUpdates ==
    [title : {Unset, None, "t2"},
     status : {Unset, None, "in_progress", "completed"}, priority : {Unset}]

\* the instant the clock visits while tasks are worked on
TaskInstants == { 1 }

\* what a task handler returns (status, the task records in the body) and
\* what it leaves committed
TaskOut(status, body, store, seq) ==
    [status |-> status, body |-> body, tasks |-> store, task_seq |-> seq]

TaskRefused(status) == TaskOut(status, << >>, tasks, task_seq)

\* variant: the query filters on the task id only
TaskLookup_anyowner(store, task_id, uid) ==
    LET hit == { i \in 1..Len(store) : store[i].id = task_id }
    IN  IF hit = {} THEN 0 ELSE CHOOSE i \in hit : \A j \in hit : i <= j

\* db.query(Task).filter(Task.id == task_id, Task.owner_id == user.id).first()
TaskLookup(store, task_id, uid) ==
    LET hit == { i \in 1..Len(store) :
                    store[i].id = task_id /\ store[i].owner_id = uid }
    IN  IF hit = {} THEN 0 ELSE CHOOSE i \in hit : \A j \in hit : i <= j

\* create_task: Task(title, status, priority, owner_id=current_user.id);
\* completed_at is not among the fields set
create_task_out(tok, data) ==
    LET uid == get_current_user(users, tok, now)
        task == [id |-> task_seq + 1, owner_id |-> uid, title |-> data.title,
                 status |-> data.status, priority |-> data.priority,
                 completed_at |-> NoTime]
    IN  IF uid = 0 THEN TaskRefused(401)
        ELSE TaskOut(200, << task >>, Append(tasks, task), task_seq + 1)

\* get_task
get_task_out(tok, task_id) ==
    LET uid == get_current_user(users, tok, now)
        i == TaskLookup(tasks, task_id, uid)
    IN  IF uid = 0 THEN TaskRefused(401)
        ELSE IF i = 0 THEN TaskRefused(404)
        ELSE TaskOut(200, << tasks[i] >>, tasks, task_seq)

\* lines 121-131: the fields the body sets are written to the record;
\* completed_at follows the status only when the body sets a status
ApplyUpdate(task, patch, t) ==
    [task EXCEPT
        !.title = IF patch.title = Unset THEN @ ELSE patch.title,
        !.status = IF patch.status = Unset THEN @ ELSE patch.status,
        !.priority = IF patch.priority = Unset THEN @ ELSE patch.priority,
        !.completed_at = IF patch.status = Unset THEN @
                         ELSE IF patch.status = "completed" THEN t
                         ELSE NoTime]

\* title, status and priority are nullable=False columns (models/task.py)
TaskRowOk(task) ==
    task.title # None /\ task.status # None /\ task.priority # None

\* update_task; a null written to a required column fails the commit
update_task_out(tok, task_id, patch) ==
    LET uid == get_current_user(users, tok, now)
        i == TaskLookup(tasks, task_id, uid)
        new == ApplyUpdate(tasks[i], patch, now)
    IN  IF uid = 0 THEN TaskRefused(401)
        ELSE IF i = 0 THEN TaskRefused(404)
        ELSE IF ~ TaskRowOk(new) THEN TaskRefused(500)
        ELSE TaskOut(200, << new >>, [tasks EXCEPT ![i] = new], task_seq)

\* db.delete(task)
RemoveAt(store, i) ==
    [j \in 1..(Len(store) - 1) |-> IF j < i THEN store[j] ELSE store[j + 1]]

\* delete_task
delete_task_out(tok, task_id) ==
    LET uid == get_current_user(users, tok, now)
        i == TaskLookup(tasks, task_id, uid)
    IN  IF uid = 0 THEN TaskRefused(401)
        ELSE IF i = 0 THEN TaskRefused(404)
        ELSE TaskOut(200, << >>, RemoveAt(tasks, i), task_seq)

\* complete_task: status = COMPLETED, completed_at = utcnow()
complete_task_out(tok, task_id) ==
    LET uid == get_current_user(users, tok, now)
        i == TaskLookup(tasks, task_id, uid)
        new == [tasks[i] EXCEPT !.status = "completed", !.completed_at = now]
    IN  IF uid = 0 THEN TaskRefused(401)
        ELSE IF i = 0 THEN TaskRefused(404)
        ELSE TaskOut(200, << new >>, [tasks EXCEPT ![i] = new], task_seq)

\* Task.title.ilike("%search%") on the titles and search strings used
TitleMatches(title, search) ==
    \/ search = "T"
    \/ search = "2" /\ title = "t2"

\* the query of get_tasks: the caller's tasks, narrowed by the filters given
TaskQuery(store, uid, st, pr, search) ==
    SelectSeq(store, LAMBDA t :
        /\ t.owner_id = uid
        /\ st = None \/ t.status = st
        /\ pr = None \/ t.priority = pr
        /\ search = None \/ TitleMatches(t.title, search))

\* order_by(desc(...)) against order_by(asc(...)), in creation order
Ordered(seq, sort_order) ==
    IF sort_order = "desc"
    THEN [i \in 1..Len(seq) |-> seq[Len(seq) + 1 - i]]
    ELSE seq

\* offset((page - 1) * per_page).limit(per_page)
PageOf(seq, page, per_page) ==
    SubSeq(seq, (page - 1) * per_page + 1,
           IF page * per_page < Len(seq) THEN page * per_page ELSE Len(seq))

\* get_tasks
get_tasks_out(tok, st, pr, search, sort_order, page, per_page) ==
    LET uid == get_current_user(users, tok, now)
    IN  IF uid = 0 THEN TaskRefused(401)
        ELSE TaskOut(200,
                     PageOf(Ordered(TaskQuery(tasks, uid, st, pr, search),
                                    sort_order), page, per_page),
                     tasks, task_seq)

\* a task handler's committed store becomes the state
TaskCommit(out) ==
    /\ out.task_seq <= MaxTasks
    /\ tasks' = out.tasks
    /\ task_seq' = out.task_seq
    /\ UNCHANGED <<users, tokens, sessions, now, access_issued, consumed,
                   logged_out>>
    /\ UNCHANGED conc

create_task(tok, data) == TaskCommit(create_task_out(tok, data))

get_task(tok, task_id) == TaskCommit(get_task_out(tok, task_id))

update_task(tok, task_id, patch) == TaskCommit(update_task_out(tok, task_id, patch))

delete_task(tok, task_id) == TaskCommit(delete_task_out(tok, task_id))

complete_task(tok, task_id) == TaskCommit(complete_task_out(tok, task_id))

get_tasks(tok, st, pr, search, sort_order, page, per_page) ==
    TaskCommit(get_tasks_out(tok, st, pr, search, sort_order, page, per_page))

\* the bearer tokens sent to the task handlers: access tokens and a forged one
Bearers == access_issued \cup {ForgedToken}

\* the task ids a request can name, stored or not
TaskIds == 1..MaxTasks

\* the query parameters of get_tasks
StatusFilters == {None, "completed"}

PriorityFilters == {None, "high"}

Searches == {None, "2"}

SortOrders == {"desc", "asc"}

Pages == 1..2

PerPages == 1..2

NextTasks ==
    \/ \E e \in Emails, p \in RegPasswords : register(e, e[1], p)
    \/ \E t \in TaskInstants : Tick(t)
    \/ \E tok \in Bearers, data \in TaskCreates : create_task(tok, data)
    \/ \E tok \in Bearers, id \in TaskIds : get_task(tok, id)
    \/ \E tok \in Bearers, id \in TaskIds, patch \in TaskUpdates :
          update_task(tok, id, patch)
    \/ \E tok \in Bearers, id \in TaskIds : delete_task(tok, id)
    \/ \E tok \in Bearers, id \in TaskIds : complete_task(tok, id)
    \/ \E tok \in Bearers, st \in StatusFilters, page \in Pages :
          get_tasks(tok, st, None, None, "desc", page, 1)

\* the task handlers, users coming from register
TaskSpec == Init /\ [][NextTasks]_vars

----------------------------------------------------------------------------
(* Properties *)

RowsOf(tok) == { i \in 1..Len(tokens) : tokens[i].token = tok }

\* C1: a refresh token that a refresh has consumed has its ledger record
\* revoked, and every later refresh presenting it is rejected with 401,
\* also before the token's expiry: refresh succeeds at most once per token.
C1_RefreshAtMostOnce ==
    \A tok \in consumed :
        /\ RowsOf(tok) # {}
        /\ \A i \in RowsOf(tok) : tokens[i].is_revoked
        /\ refresh_out(tok).status = 401
        /\ refresh_out(tok).tokens = tokens

\* a consumed token that is still signed, unexpired and in the ledger
C1_Witness ==
    \E tok \in consumed :
        /\ verify_token(tok, "refresh", now) = "ok"
        /\ \E i \in RowsOf(tok) : tokens[i].expires_at > now
        /\ refresh_out(tok).status = 401

\* C2: of the refresh requests that present one token, at most one succeeds,
\* however their read, write and commit steps interleave.
C2_ConcurrentRefreshOnce ==
    \A a \in refreshed, b \in refreshed : a[2] = b[2] => a[1] = b[1]

\* C3: once a logout of a user has completed, every refresh token issued to
\* the user before it is rejected by refresh; and a logout leaves every
\* refresh token of the user revoked and every session of the user inactive.
C3_LogoutRevokesAll ==
    /\ \A tok \in logged_out : refresh_out(tok).status = 401
    /\ \A tok \in Presentable :
          LET out == logout_out(tok)
          IN  out.status = 200 =>
                /\ \A i \in 1..Len(out.tokens) :
                      out.tokens[i].user_id = out.user_id
                          => out.tokens[i].is_revoked
                /\ \A i \in 1..Len(out.sessions) :
                      out.sessions[i].user_id = out.user_id
                          => ~ out.sessions[i].is_active

\* after a logout: an unexpired token of the user, issued before the logout and
\* never consumed, is refused, and a session of the user has been closed
C3_Witness ==
    \E tok \in logged_out \ consumed :
        /\ verify_token(tok, "refresh", now) = "ok"
        /\ \E i \in RowsOf(tok) : tokens[i].expires_at > now
        /\ refresh_out(tok).status = 401
        /\ \E i \in 1..Len(sessions) :
              sessions[i].user_id = tok.user_id /\ ~ sessions[i].is_active

\* C4: a refresh never succeeds for a token that a logout has revoked, and
\* once no request is in flight no unrevoked refresh token is left that was
\* obtained by consuming a token a logout revoked.
C4_LogoutRefreshSafe ==
    /\ \A a \in refreshed : a[2] \notin logout_revoked
    /\ (\A p \in Procs : pc[p] = "idle") =>
          \A d \in derived :
              d[2] \in logout_revoked =>
                  \A i \in RowsOf(d[1]) : tokens[i].is_revoked

\* C5: a step in which register, login or a federated callback stores a
\* refresh token returns one access token, stores exactly one new unrevoked
\* record owned by a user, and opens exactly one new active session for
\* that user.
C5_IssueOpensSession ==
    [][ (Len(tokens') = Len(tokens) + 1 /\ consumed' = consumed) =>
          LET row == tokens'[Len(tokens')]
          IN  /\ tokens' = Append(tokens, row)
              /\ ~ row.is_revoked
              /\ row.user_id \in 1..Len(users')
              /\ Cardinality(access_issued') = Cardinality(access_issued) + 1
              /\ sessions' = Append(sessions, [user_id |-> row.user_id,
                                               is_active |-> TRUE]) ]_vars

\* C6: register succeeds exactly when neither the email nor the username is
\* taken; when either is taken it answers 400, creates no user and stores no
\* refresh token.
C6_RegisterConflict ==
    \A e \in Emails, u \in Usernames, p \in RegPasswords :
        LET out == register_out(e, u, p)
            taken == \E i \in UserIds :
                        users[i].email = e \/ users[i].username = u
        IN  IF taken
            THEN /\ out.status = 400
                 /\ out.users = users
                 /\ out.tokens = tokens
            ELSE /\ out.status = 200
                 /\ Len(out.users) = Len(users) + 1

\* a registration whose username alone is taken, and one whose email alone is
C6_Witness ==
    /\ \E i \in UserIds : \E e \in Emails, u \in Usernames :
          /\ users[i].username = u
          /\ \A j \in UserIds : users[j].email # e
          /\ register_out(e, u, "p1").status = 400
    /\ \E i \in UserIds : \E e \in Emails, u \in Usernames :
          /\ users[i].email = e
          /\ \A j \in UserIds : users[j].username # u
          /\ register_out(e, u, "p1").status = 400

C8_NoLoginWithoutHash ==
    \A uid \in UserIds :
        users[uid].hashed_password = NoHash =>
            \A p \in Passwords :
                LET out == login_out(users[uid].email, p)
                IN  /\ out.status = 401
                    /\ out.tokens = tokens
                    /\ out.users = users

\* a federation-only account exists and a login with its email is refused
C8_Witness ==
    \E uid \in UserIds :
        /\ users[uid].hashed_password = NoHash
        /\ users[uid].is_active
        /\ login_out(users[uid].email, "p1").status = 401

\* C9: login answers an unknown email and a wrong password with the same 401
\* response, answers a correct password on an inactive account with 401, and
\* in all three cases stores no refresh token and changes no user record.
C9_LoginRejections ==
    \A e \in Emails, p \in Passwords :
        LET uid == UserByEmail(e)
            out == login_out(e, p)
            unknown == uid = 0
            wrong == /\ uid # 0
                     /\ users[uid].hashed_password # NoHash
                     /\ ~ verify_password(p, users[uid].hashed_password)
            inactive == /\ uid # 0
                        /\ verify_password(p, users[uid].hashed_password)
                        /\ ~ users[uid].is_active
        IN  /\ (unknown \/ wrong) =>
                 /\ out.status = 401
                 /\ out.detail = "Incorrect email or password"
            /\ inactive => out.status = 401
            /\ (unknown \/ wrong \/ inactive) =>
                 /\ out.tokens = tokens
                 /\ out.users = users
                 /\ out.access = NoToken
                 /\ out.refresh = NoToken

\* an inactive password account, refused with the right and with a wrong
\* password, beside an email that no user has
C9_Witness ==
    \E uid \in UserIds, e \in Emails :
        /\ UserByEmail(e) = 0
        /\ ~ users[uid].is_active
        /\ users[uid].hashed_password = get_password_hash("p1")
        /\ login_out(users[uid].email, "p1").status = 401
        /\ login_out(users[uid].email, "wrong").status = 401
        /\ login_out(e, "p1").status = 401

\* C10: revocation is monotonic: every step keeps every ledger record in
\* place and keeps a revoked record revoked.
C10_RevocationMonotonic ==
    [][ \A i \in 1..Len(tokens) :
          /\ i <= Len(tokens')
          /\ tokens'[i].token = tokens[i].token
          /\ tokens[i].is_revoked => tokens'[i].is_revoked ]_vars

\* a record revoked by a refresh, and then a logout of the same user
C10_Witness ==
    \E tok \in consumed \cap logged_out :
        \E i \in RowsOf(tok) : tokens[i].is_revoked

\* the user's refresh tokens are all revoked and the user's sessions all closed
LoggedOutState(ledger, sess, uid) ==
    /\ \A i \in 1..Len(ledger) : ledger[i].user_id = uid => ledger[i].is_revoked
    /\ \A i \in 1..Len(sess) : sess[i].user_id = uid => ~ sess[i].is_active

\* C11: logout is idempotent: an authenticated logout for a user whose refresh
\* tokens are all revoked and whose sessions are all inactive answers 200 and
\* leaves every refresh-token and session record as it was; and applying the
\* updates of a logout to the stores a logout left changes nothing.
C11_LogoutIdempotent ==
    \A tok \in Presentable :
        LET uid == get_current_user(users, tok, now)
            out == logout_out(tok)
        IN  uid # 0 =>
              /\ out.status = 200
              /\ LoggedOutState(out.tokens, out.sessions, uid)
              /\ RevokeAllForUser(out.tokens, uid) = out.tokens
              /\ CloseAllForUser(out.sessions, uid) = out.sessions
              /\ LoggedOutState(tokens, sessions, uid) =>
                    /\ out.tokens = tokens
                    /\ out.sessions = sessions

\* a user who has logged out, with a revoked record and a closed session, still
\* holds an access token that authenticates a second logout
C11_Witness ==
    \E tok \in access_issued :
        LET uid == get_current_user(users, tok, now)
        IN  /\ uid # 0
            /\ LoggedOutState(tokens, sessions, uid)
            /\ TokensOf(tokens, uid) # {}
            /\ TokensOf(tokens, uid) \subseteq logged_out
            /\ \E i \in 1..Len(sessions) : sessions[i].user_id = uid
            /\ logout_out(tok).status = 200

\* every refresh token string the codec can produce for the users and instants
RefreshStrings ==
    { create_refresh_token(uid, t) : uid \in 1..Cardinality(Emails), t \in Instants }

\* C12: token strings in the ledger are unique in every reachable state, and
\* a successful refresh of R1 stores a token R2 that differs from R1 and from
\* every token string the ledger held, after which refresh(R1) fails with 401
\* and refresh(R2) succeeds.
C12_RotationFresh ==
    /\ [](\A i \in 1..Len(tokens), j \in 1..Len(tokens) :
             i # j => tokens[i].token # tokens[j].token)
    /\ [][ \A r1 \in RefreshStrings, r2 \in RefreshStrings :
             ( /\ r1 \in consumed' \ consumed
               /\ Len(tokens') = Len(tokens) + 1
               /\ tokens'[Len(tokens')].token = r2 ) =>
                 /\ r2 # r1
                 /\ r2 \notin LedgerTokens
                 /\ refresh_out(r1)'.status = 401
                 /\ refresh_out(r2)'.status = 200 ]_vars

\* what C13 asks of a callback answering `out` for the profile user `new`
\* (GoogleUser or GithubUser of the profile) in the current stores
CreatesOnce(out, new) ==
    LET uid == UserByEmail(new.email)
    IN  /\ uid = 0 =>
              /\ out.status = 200
              /\ out.users = Append(users, new)
              /\ new.is_verified
              /\ new.hashed_password = NoHash
              /\ out.user_id = Len(users) + 1
              /\ out.tokens = Append(tokens, RefreshTokenRow(out.refresh,
                                                            Len(users) + 1, now))
        /\ (uid # 0 /\ users[uid] = new) =>
              /\ out.status = 200
              /\ out.users = users
              /\ out.user_id = uid
              /\ out.tokens = Append(tokens, RefreshTokenRow(out.refresh, uid, now))

\* C13: a federated callback whose profile email matches no user creates
\* exactly one user, verified, with the calling provider, the profile's id and
\* no password hash; a callback with the profile of a user so created creates
\* no user and issues its tokens for that user's id.
C13_FederatedCreateOnce ==
    /\ \A info \in GoogleProfiles :
          /\ GoogleUser(info).provider = "google"
          /\ GoogleUser(info).provider_id = info.id
          /\ CreatesOnce(google_out("code", info), GoogleUser(info))
    /\ \A info \in GithubProfiles :
          /\ GithubUser(info).provider = "github"
          /\ GithubUser(info).provider_id = ToString(info.id)
          /\ CreatesOnce(github_out("code", info), GithubUser(info))

\* what C14 asks of a callback answering `out` for a profile with `email`
ResolvesByEmail(out, email) ==
    LET uid == UserByEmail(email)
    IN  uid # 0 =>
          /\ out.status = 200
          /\ out.user_id = uid
          /\ out.access = create_access_token(uid, users[uid].email, now)
          /\ out.refresh = create_refresh_token(uid, now)
          /\ out.tokens = Append(tokens, RefreshTokenRow(out.refresh, uid, now))
          /\ Len(out.users) = Len(users)
          /\ out.users[uid].provider = users[uid].provider
          /\ out.users[uid].provider_id = users[uid].provider_id
          /\ out.users[uid].hashed_password = users[uid].hashed_password
          /\ out.users[uid].is_verified = users[uid].is_verified

\* C14: a federated callback resolves the user by email alone: when a user
\* with the profile's email exists, whatever its provider, provider_id or
\* password hash, the callback issues the token pair for that user and leaves
\* the user's provider, provider_id, password hash and verified flag unchanged.
C14_ResolveByEmail ==
    /\ \A info \in GoogleProfiles :
          ResolvesByEmail(google_out("code", info), info.email)
    /\ \A info \in GithubProfiles :
          ResolvesByEmail(github_out("code", info), info.email)

C17_ExpiredRefused ==
    \A tok \in Presentable :
        LET out == refresh_out(tok)
        IN  /\ tok.exp < now =>
                  /\ out.status = 401
                  /\ out.tokens = tokens
                  /\ out.access = NoToken /\ out.refresh = NoToken
            /\ \A i \in 1..Len(tokens) :
                  tokens[i].expires_at <= now =>
                      /\ out.tokens[i] = tokens[i]
                      /\ tokens[i].token = tok => out.status = 401

\* a signed refresh token with an unrevoked ledger record, a minute past its
\* expiry, is refused
C17_Witness ==
    \E tok \in LedgerTokens :
        /\ tok.sig = "ok" /\ tok.type = "refresh"
        /\ tok.exp < now
        /\ \E i \in RowsOf(tok) :
              ~ tokens[i].is_revoked /\ tokens[i].expires_at < now
        /\ refresh_out(tok).status = 401

\* C18: operations are independent across users: a logout by user u changes
\* only refresh-token records and sessions owned by u, and a refresh by u
\* revokes only the presented record and stores only a record owned by u;
\* every refresh-token and session record of any other user is left as it was.
C18_UserIndependence ==
    \A tok \in Presentable :
        LET lo == logout_out(tok)
            re == refresh_out(tok)
        IN  /\ Len(lo.tokens) = Len(tokens)
            /\ Len(lo.sessions) = Len(sessions)
            /\ \A i \in 1..Len(tokens) :
                  tokens[i].user_id # lo.user_id => lo.tokens[i] = tokens[i]
            /\ \A i \in 1..Len(sessions) :
                  sessions[i].user_id # lo.user_id => lo.sessions[i] = sessions[i]
            /\ re.sessions = sessions
            /\ \A i \in 1..Len(tokens) :
                  (tokens[i].token # tok \/ tokens[i].user_id # tok.user_id)
                      => re.tokens[i] = tokens[i]
            /\ \A i \in 1..Len(re.tokens) :
                  i > Len(tokens) => re.tokens[i].user_id = tok.user_id

\* user u has logged out, and another user's refresh token is still unrevoked
\* and still accepted, and that user's session still active
C18_Witness ==
    \E u \in UserIds, v \in UserIds :
        /\ u # v
        /\ TokensOf(tokens, u) # {}
        /\ TokensOf(tokens, u) \subseteq logged_out
        /\ \E i \in 1..Len(tokens) :
              /\ tokens[i].user_id = v
              /\ ~ tokens[i].is_revoked
              /\ RefreshLookup(tokens, tokens[i].token, v, now) = i
        /\ \E i \in 1..Len(sessions) :
              sessions[i].user_id = v /\ sessions[i].is_active

\* the answer `out` returns no token pair and stores no refresh token
Refuses(out) ==
    /\ out.status # 200
    /\ out.access = NoToken /\ out.refresh = NoToken
    /\ out.tokens = tokens

\* C19: no operation issues a token pair for a user whose active flag is
\* false: login with the user's email, refresh with a token of the user and a
\* federated callback with the user's email all refuse to return or store
\* new tokens.
C19_NoTokensForInactive ==
    \A uid \in UserIds :
        ~ users[uid].is_active =>
            /\ \A p \in Passwords : Refuses(login_out(users[uid].email, p))
            /\ \A tok \in Presentable :
                  tok.user_id = uid => Refuses(refresh_out(tok))
            /\ \A info \in GoogleProfiles :
                  info.email = users[uid].email => Refuses(google_out("code", info))
            /\ \A info \in GithubProfiles :
                  info.email = users[uid].email => Refuses(github_out("code", info))

\* the reasons for which the ledger has no usable record of a token
NotInLedger(tok) == RowsOf(tok) = {}

\* the ledger with record i owned by another user than the token names
OwnedByAnother(tok, i) == [tokens EXCEPT ![i].user_id = tok.user_id + 1]

AlreadyRevoked(tok) == \E i \in RowsOf(tok) : tokens[i].is_revoked

Expired(tok) == \E i \in RowsOf(tok) : tokens[i].expires_at <= now

\* C20: a rejected refresh changes nothing: a token that is not in the
\* ledger, owned by another user, already revoked or expired is refused, and
\* a refresh that is refused revokes no record, stores no record and modifies
\* no user record.
C20_RejectedRefreshNoChange ==
    \A tok \in Presentable :
        LET out == refresh_out(tok)
        IN  /\ (NotInLedger(tok) \/ AlreadyRevoked(tok) \/ Expired(tok))
                  => out.status = 401
            /\ \A i \in RowsOf(tok) :
                  RefreshLookup(OwnedByAnother(tok, i), tok, tok.user_id, now) = 0
            /\ out.status # 200 =>
                  /\ out.tokens = tokens
                  /\ out.users = users
                  /\ out.sessions = sessions
                  /\ out.access = NoToken /\ out.refresh = NoToken

\* a revoked token is refused while the same user holds an unrevoked,
\* unexpired record that a refresh could have touched
C20_Witness ==
    \E tok \in LedgerTokens :
        /\ verify_token(tok, "refresh", now) = "ok"
        /\ AlreadyRevoked(tok)
        /\ refresh_out(tok).status = 401
        /\ \E i \in 1..Len(tokens) :
              /\ tokens[i].user_id = tok.user_id
              /\ ~ tokens[i].is_revoked
              /\ tokens[i].expires_at > now

\* C21: in every reachable state of the task store, a task has completed_at
\* set if and only if its status is COMPLETED, after any sequence of
\* create_task, update_task, complete_task and delete_task.
C21_CompletedAtIffCompleted ==
    \A i \in 1..Len(tasks) :
        tasks[i].completed_at # NoTime <=> tasks[i].status = "completed"

\* the task with id `task_id` is stored and owned by another user than `uid`
OwnedByOther(task_id, uid) ==
    \E i \in 1..Len(tasks) : tasks[i].id = task_id /\ tasks[i].owner_id # uid

\* the answer `out` is 404 and the store is as it was
NotFound(out) == out.status = 404 /\ out.tasks = tasks /\ out.body = << >>

\* C22: task operations are isolated by owner: get_task, update_task,
\* delete_task and complete_task called by user u on a task owned by another
\* user return 404 and leave the task unchanged, get_tasks returns only tasks
\* owned by u, and no step changes the owner_id of a task.
C22_OwnerIsolation ==
    /\ [](\A tok \in Bearers :
            LET uid == get_current_user(users, tok, now)
            IN  uid # 0 =>
                  /\ \A id \in TaskIds :
                        OwnedByOther(id, uid) =>
                            /\ NotFound(get_task_out(tok, id))
                            /\ NotFound(delete_task_out(tok, id))
                            /\ NotFound(complete_task_out(tok, id))
                            /\ \A patch \in TaskUpdates :
                                  NotFound(update_task_out(tok, id, patch))
                  /\ \A st \in StatusFilters, pr \in PriorityFilters,
                        search \in Searches, so \in SortOrders,
                        page \in Pages, per_page \in PerPages :
                        LET out == get_tasks_out(tok, st, pr, search, so, page,
                                                 per_page)
                        IN  /\ out.tasks = tasks
                            /\ \A k \in 1..Len(out.body) :
                                  out.body[k].owner_id = uid)
    /\ [][ \A i \in 1..Len(tasks), j \in 1..Len(tasks') :
              tasks[i].id = tasks'[j].id
                  => tasks[i].owner_id = tasks'[j].owner_id ]_vars

\* two users hold a task each; one of them is refused the other's task and is
\* listed only its own, which it has updated
C22_Witness ==
    \E tok \in access_issued :
        LET uid == get_current_user(users, tok, now)
        IN  /\ uid # 0
            /\ \E i \in 1..Len(tasks), j \in 1..Len(tasks) :
                  /\ tasks[i].owner_id = uid
                  /\ tasks[i].title = "t2"
                  /\ tasks[j].owner_id # uid
                  /\ get_task_out(tok, tasks[j].id).status = 404
                  /\ complete_task_out(tok, tasks[j].id).status = 404
                  /\ get_tasks_out(tok, None, None, None, "asc", 1, 2).body
                        = << tasks[i] >>

====
